---- MODULE Spec2Model ----
(***************************************************************************)
(* Model of the DoubleSlider class of src/src/gui_elements.py: a QSlider   *)
(* subclass that maps the integer device position onto a floating-point    *)
(* range; of the Success and Failure return objects of                     *)
(* src/src/messaging.py; of the collapsible Group box of                   *)
(* src/src/gui_elements.py; and of the Logger of src/src/messaging.py.     *)
(* Each component has its own specification (Spec, SpecResult, SpecGroup,  *)
(* SpecLogger): the components share no state, and in the specification of *)
(* one component the variables of the others stay as they start.  The      *)
(* Logger has a second specification, SpecLogStream, for what an instance  *)
(* writes to its stream; format_msg, a class method that touches no        *)
(* instance, is left to SpecLogger.                                        *)
(*                                                                         *)
(* A DoubleSlider exists only through its constructor: Spec starts before  *)
(* any instance is made and its steps are the two ways the code makes one, *)
(* DoubleSlider() itself and GuiElements.multi_input_dialog with           *)
(* data['type'] == float, which constructs the slider and then applies     *)
(* data['min'], data['max'] and data['default'] to it.                     *)
(*                                                                         *)
(* Python numbers are modelled as exact rationals [n |-> numerator,        *)
(* d |-> denominator] with d > 0, kept in lowest terms; float rounding is  *)
(* not modelled.  A method call is modelled by an operator that returns    *)
(* the record [exc, ret, self]: the exception that left the call ("None"   *)
(* when it returned), the returned number and the instance afterwards.     *)
(* Every method takes the number of the interpreter frame it runs in, so   *)
(* that a self-call without a base case ends the way the interpreter ends  *)
(* it: with RecursionError at the frame limit.                             *)
(***************************************************************************)
EXTENDS Integers, Sequences, FiniteSets, TLC

VARIABLES phase, slider, pre, call

\* the Success or Failure object in hand and the last operation on it
VARIABLES result, rcall

\* the Logger in hand and the last operation on it
VARIABLES logger, lcall

\* the Group in hand, the last operation on it, and the lines its logger
\* has written to the error stream
VARIABLES group, gcall, stream

sliderVars == <<phase, slider, pre, call>>

resultVars == <<result, rcall>>

loggerVars == <<logger, lcall>>

groupVars == <<group, gcall, stream>>

vars == <<phase, slider, pre, call, result, rcall, logger, lcall, group, gcall, stream>>

\* what the DoubleSlider operations leave alone
outsideSlider == <<result, rcall, logger, lcall, group, gcall, stream>>

\* what the Success and Failure operations leave alone
outsideResult == <<phase, slider, pre, call, logger, lcall, group, gcall, stream>>

\* what the Logger operations leave alone
outsideLogger == <<phase, slider, pre, call, result, rcall, group, gcall, stream>>

\* what a Logger call that writes to the stream leaves alone
outsideLogStream == <<phase, slider, pre, call, result, rcall, group, gcall>>

\* what the Group operations leave alone
outsideGroup == <<phase, slider, pre, call, result, rcall, logger, lcall>>

----------------------------------------------------------------------------
(* Bounds of the model *)

\* frames the interpreter grants before it raises RecursionError
RecursionLimit == 6

\* largest magnitude the model follows exactly through the setValue self-call
MagnitudeCap == 100000

\* values used for the bounds of the range (_min_value, _max_value)
BoundValues == {0, 5, 100, 200, 6000, 20000}

\* device positions an instance may hold
RawPositions == {0, 2500, 5000, 10000}

----------------------------------------------------------------------------
(* Python numbers *)

Abs(x) == IF x < 0 THEN -x ELSE x

Sign(x) == IF x < 0 THEN -1 ELSE IF x > 0 THEN 1 ELSE 0

RECURSIVE GCD(_, _)
GCD(a, b) == IF b = 0 THEN a ELSE GCD(b, a % b)

\* the rational n/d (d # 0) in lowest terms with a positive denominator
Rat(n, d) ==
    LET g == GCD(Abs(n), Abs(d))
    IN  [n |-> Sign(d) * (n \div g), d |-> Abs(d) \div g]

Num(i) == [n |-> i, d |-> 1]

\* the absent return value (None)
NoRet == [n |-> 0, d |-> 0]

RAdd(a, b) == Rat(a.n * b.d + b.n * a.d, a.d * b.d)

RSub(a, b) == Rat(a.n * b.d - b.n * a.d, a.d * b.d)

RMul(a, b) == Rat(a.n * b.n, a.d * b.d)

\* a / b for b # 0
RDiv(a, b) == Rat(a.n * b.d, a.d * b.n)

RLe(a, b) == a.n * b.d <= b.n * a.d

RAbs(a) == [n |-> Abs(a.n), d |-> a.d]

\* int(x): truncation toward zero
PyInt(a) == Sign(a.n) * (Abs(a.n) \div a.d)

\* round(x): nearest integer, ties to even
PyRound(a) ==
    LET fl  == a.n \div a.d
        rem == 2 * (a.n - fl * a.d)
    IN  IF rem < a.d THEN fl
        ELSE IF rem > a.d THEN fl + 1
        ELSE IF fl % 2 = 0 THEN fl ELSE fl + 1

----------------------------------------------------------------------------
(* Outcomes of a call *)

Return(self, v) == [exc |-> "None", ret |-> v, self |-> self]

Raise(self, e) == [exc |-> e, ret |-> NoRet, self |-> self]

\* which limit of the runtime ends an unbounded, slowly growing self-call
RuntimeLimits == {"stack", "float"}

----------------------------------------------------------------------------
(* The instance *)

\* self._max_int = 10000
MaxInt == 10000

\* the QSlider part of a fresh instance: Qt's range [0, 99] and position 0
QSliderInit ==
    [attrs |-> {}, qt_min |-> 0, qt_max |-> 99, qt_value |-> 0,
     max_int |-> 0, min_value |-> Num(0), max_value |-> Num(0)]

Has(self, a) == a \in self.attrs

\* DoubleSlider._value_range: self._max_value - self._min_value
value_range(self) == RSub(self.max_value, self.min_value)

\* DoubleSlider.value running in frame depth
RECURSIVE value(_, _)
value(self, depth) ==
    IF depth > RecursionLimit THEN Raise(self, "RecursionError")
    ELSE LET inner == value(self, depth + 1)
         IN  IF inner.exc # "None" THEN inner
             ELSE IF ~Has(self, "_max_int") \/ ~Has(self, "_max_value")
                     \/ ~Has(self, "_min_value")
             THEN Raise(self, "AttributeError")
             ELSE Return(self, RMul(RDiv(inner.ret, Num(self.max_int)),
                                    value_range(self)))

\* the argument of the setValue self-call keeps growing: |range| < _max_int
Growing(self) ==
    LET r == RAbs(value_range(self))
    IN  RLe(r, Num(self.max_int)) /\ r # Num(self.max_int)

\* it at least quadruples per frame, so it leaves the float range well
\* inside the interpreter's frame limit: 4 * |range| <= _max_int
FastGrowing(self) == RLe(RMul(Num(4), RAbs(value_range(self))), Num(self.max_int))

\* how the interpreter ends a setValue self-call whose non-zero argument the
\* model no longer follows: int() of a float that became infinite raises
\* OverflowError, unless the frames run out first
GrowthEnd(self, first) ==
    IF ~Growing(self) THEN "RecursionError"
    ELSE IF FastGrowing(self) \/ first = "float" THEN "OverflowError"
    ELSE "RecursionError"

\* DoubleSlider.setValue running in frame depth
RECURSIVE setValue(_, _, _, _)
setValue(self, val, depth, first) ==
    IF depth > RecursionLimit
    THEN Raise(self, IF val.n = 0 THEN "RecursionError" ELSE GrowthEnd(self, first))
    ELSE IF ~Has(self, "_max_value") \/ ~Has(self, "_min_value")
    THEN Raise(self, "AttributeError")
    ELSE IF value_range(self).n = 0 THEN Raise(self, "ZeroDivisionError")
    ELSE IF ~Has(self, "_max_int") THEN Raise(self, "AttributeError")
    ELSE LET pos == PyInt(RMul(RDiv(val, value_range(self)), Num(self.max_int)))
         IN  IF Abs(pos) > MagnitudeCap THEN Raise(self, GrowthEnd(self, first))
             ELSE setValue(self, Num(pos), depth + 1, first)

\* DoubleSlider.setRange running in frame depth
setRange(self, minimum, maximum, depth, first) ==
    IF depth > RecursionLimit THEN Raise(self, "RecursionError")
    ELSE LET old_value == value(self, depth + 1)
             moved == [self EXCEPT !.min_value = minimum, !.max_value = maximum,
                                   !.attrs = @ \cup {"_min_value", "_max_value"}]
             set == setValue(moved, old_value.ret, depth + 1, first)
         IN  IF old_value.exc # "None" THEN Raise(self, old_value.exc)
             ELSE IF set.exc # "None" THEN Raise(set.self, set.exc)
             ELSE Return(set.self, NoRet)

\* DoubleSlider.setMinimum running in frame depth
setMinimum(self, val, depth, first) ==
    IF depth > RecursionLimit THEN Raise(self, "RecursionError")
    ELSE IF ~Has(self, "_max_value") THEN Raise(self, "AttributeError")
    ELSE setRange(self, val, self.max_value, depth + 1, first)

\* DoubleSlider.setMaximum running in frame depth
setMaximum(self, val, depth, first) ==
    IF depth > RecursionLimit THEN Raise(self, "RecursionError")
    ELSE IF ~Has(self, "_min_value") THEN Raise(self, "AttributeError")
    ELSE setRange(self, self.min_value, val, depth + 1, first)

\* DoubleSlider.proportion running in frame depth
proportion(self, depth) ==
    IF depth > RecursionLimit THEN Raise(self, "RecursionError")
    ELSE LET v == value(self, depth + 1)
         IN  IF v.exc # "None" THEN Raise(self, v.exc)
             ELSE IF ~Has(self, "_min_value") \/ ~Has(self, "_max_value")
             THEN Raise(self, "AttributeError")
             ELSE IF value_range(self).n = 0 THEN Raise(self, "ZeroDivisionError")
             ELSE Return(self, RDiv(RSub(v.ret, self.min_value), value_range(self)))

\* DoubleSlider.__init__ running in frame depth
init(depth, first) ==
    LET base == QSliderInit
        lo == setMinimum(base, Num(0), depth + 1, first)
        withInt == [lo.self EXCEPT !.max_int = MaxInt, !.attrs = @ \cup {"_max_int"}]
        hi == setMaximum(withInt, Num(withInt.max_int), depth + 1, first)
    IN  IF lo.exc # "None" THEN Raise(lo.self, lo.exc)
        ELSE IF hi.exc # "None" THEN Raise(hi.self, hi.exc)
        ELSE Return([hi.self EXCEPT !.min_value = Num(0), !.max_value = Num(100),
                                    !.attrs = @ \cup {"_min_value", "_max_value"}],
                    NoRet)

----------------------------------------------------------------------------
(* Success and Failure *)

\* A Python string is modelled as a sequence of pieces of text, and an
\* optional string as [some, text]: None is the value with some = FALSE.
NoneValue == [some |-> FALSE, text |-> <<>>]

Str(text) == [some |-> TRUE, text |-> text]

\* Failure.__new__ as it would be with the base value of Success
Failure_new_truthy(message) == [cls |-> "Failure", int_value |-> 1, message |-> NoneValue]

\* Failure.__new__: int.__new__(cls, bool(0))
Failure_new(message) == [cls |-> "Failure", int_value |-> 0, message |-> NoneValue]

\* Failure.__init__ as it would be if it dropped its argument
Failure_init_dropped(self, message) == [self EXCEPT !.message = NoneValue]

\* Failure.__init__: self._message = message
Failure_init(self, message) == [self EXCEPT !.message = message]

\* Success.__new__: int.__new__(cls, bool(1))
Success_new(message) == [cls |-> "Success", int_value |-> 1, message |-> NoneValue]

\* Success.__init__: self._message = message
Success_init(self, message) == [self EXCEPT !.message = message]

\* Failure(message): __new__, then __init__ on the new object
Failure(message) == Failure_init(Failure_new(message), message)

\* Success(message): __new__, then __init__ on the new object
Success(message) == Success_init(Success_new(message), message)

\* the message property
message_get(self) == self.message

\* the message setter as it would be if it kept the first message
message_set_once(self, val) == IF self.message.some THEN self ELSE [self EXCEPT !.message = val]

\* the message setter: self._message = value
message_set(self, val) == [self EXCEPT !.message = val]

\* the truth value of the object: the class defines no __bool__ (the
\* __nonzero__ methods are not consulted), so it is that of the int it extends
PyBool(self) == self.int_value # 0

\* messages passed by callers; NoneValue also stands for no argument
Messages == {NoneValue, Str(<<>>), Str(<<"ok">>), Str(<<"done">>),
             Str(<<"no", "such", "file">>)}

\* most assignments to message made to one object
MaxWrites == 3

NoObject == [cls |-> "none", int_value |-> 0, message |-> NoneValue]

NoResultCall == [op |-> "none", arg |-> NoneValue, ret |-> NoneValue, truth |-> FALSE, writes |-> 0]

IdleResult == result = NoObject /\ rcall = NoResultCall

----------------------------------------------------------------------------
(* Logger *)

\* the levels of the logging module
DEBUG == 10

INFO == 20

WARNING == 30

ERROR == 40

CRITICAL == 50

\* addHandler as it would be if it attached the handler at every call
addHandler_again(self, hdlr) == [self EXCEPT !.handlers = Append(@, hdlr)]

\* Logger.addHandler: a handler already attached is not attached again
addHandler(self, hdlr) ==
    IF \E i \in 1..Len(self.handlers) : self.handlers[i] = hdlr
    THEN self
    ELSE [self EXCEPT !.handlers = Append(@, hdlr)]

\* Logger.__init__: level DEBUG, no decision cached, a ColorHandler with the
\* level-showing formatter, and a FileHandler before it when a filename is
\* given
Logger_init(filename) ==
    LET base == [level |-> DEBUG, handlers |-> <<>>, handler_level |-> 0,
                 show_level |-> TRUE, scheme |-> 0, cache |-> {}]
        filed == IF filename.some /\ filename.text # <<>>
                 THEN addHandler(base, "FileHandler")
                 ELSE [base EXCEPT !.handler_level = DEBUG]
    IN  addHandler([filed EXCEPT !.show_level = TRUE], "ColorHandler")

\* set_debug_level as it would be with the levels numbered by severity
set_debug_level_by_severity(self, level) ==
    IF level = 4 THEN [self EXCEPT !.level = CRITICAL]
    ELSE IF level = 3 THEN [self EXCEPT !.level = ERROR]
    ELSE IF level = 2 THEN [self EXCEPT !.level = WARNING]
    ELSE IF level = 1 THEN [self EXCEPT !.level = INFO]
    ELSE IF level = 0 THEN [self EXCEPT !.level = DEBUG]
    ELSE self

\* Logger.set_debug_level
set_debug_level(self, level) ==
    IF level = 4 THEN [self EXCEPT !.level = CRITICAL]
    ELSE IF level = 3 THEN [self EXCEPT !.level = INFO]
    ELSE IF level = 2 THEN [self EXCEPT !.level = WARNING]
    ELSE IF level = 1 THEN [self EXCEPT !.level = ERROR]
    ELSE IF level = 0 THEN [self EXCEPT !.level = DEBUG]
    ELSE self

\* level: int = 4
DefaultDebugLevel == 4

\* n spaces
RECURSIVE Spaces(_)
Spaces(n) == IF n = 0 THEN <<>> ELSE <<" ">> \o Spaces(n - 1)

\* sep.join(list)
RECURSIVE Join(_, _)
Join(sep, list) ==
    IF Len(list) = 0 THEN <<>>
    ELSE IF Len(list) = 1 THEN list[1]
    ELSE list[1] \o sep \o Join(sep, Tail(list))

\* the truth value of an optional string: neither None nor empty
Truthy(s) == s.some /\ s.text # <<>>

\* "\n{0:>16}".format(" ") and its variants for warning and error
LineBreak(msg_type) ==
    <<"\n">> \o Spaces(IF msg_type = "warning" THEN 19
                        ELSE IF msg_type = "error" THEN 17 ELSE 16)

\* Logger.format_msg; msg_list is None or a list of strings
format_msg(module, class, method, property, msg_list, msg_type) ==
    LET new_line_break == LineBreak(msg_type)
        msg == (IF Truthy(module) THEN module.text ELSE <<>>)
               \o (IF Truthy(class) THEN <<".">> \o class.text ELSE <<>>)
               \o (IF Truthy(method) THEN <<".">> \o method.text \o <<"(", ")">> ELSE <<>>)
               \o (IF Truthy(property) THEN <<".">> \o property.text ELSE <<>>)
               \o new_line_break
    IN  IF ~msg_list.some THEN [exc |-> "TypeError", ret |-> <<>>]
        ELSE [exc |-> "None", ret |-> msg \o Join(new_line_break, msg_list.list)]

\* Logger.show_level: the formatter of the colour handler is replaced and
\* the handler is handed to addHandler once more
show_level(self, state) ==
    IF state
    THEN addHandler([self EXCEPT !.show_level = TRUE], "ColorHandler")
    ELSE addHandler([self EXCEPT !.show_level = FALSE], "ColorHandler")

\* ColorHandler.update_color_scheme: the level map installed is the one of
\* scheme 1 or 2, and the default map (scheme 0) for every other value
update_color_scheme(self, scheme) ==
    IF scheme = 0 THEN [self EXCEPT !.scheme = 0]
    ELSE IF scheme = 1 THEN [self EXCEPT !.scheme = 1]
    ELSE IF scheme = 2 THEN [self EXCEPT !.scheme = 2]
    ELSE [self EXCEPT !.scheme = 0]

\* Logger.set_color_scheme
set_color_scheme(self, scheme) == update_color_scheme(self, scheme)

\* scheme: int = 0
DefaultScheme == 0

\* state: bool = True
DefaultState == TRUE

\* %(levelname)s
levelname(levelno) ==
    CASE levelno = DEBUG -> "DEBUG"
      [] levelno = INFO -> "INFO"
      [] levelno = WARNING -> "WARNING"
      [] levelno = ERROR -> "ERROR"
      [] levelno = CRITICAL -> "CRITICAL"

\* the formatter of the colour handler applied to a record:
\* "%(levelname)s: {:<10}%(message)s" when the level is shown,
\* "{:<4}%(message)s" when it is hidden
Formatter_format(shown, levelno, msg) ==
    IF shown THEN <<levelname(levelno), ": ">> \o Spaces(10) \o msg
    ELSE Spaces(4) \o msg

\* Logger.isEnabledFor, inherited from logging.Logger: the decision for a
\* level is taken against the level of the logger the first time the level
\* is asked for and kept in the cache of the instance.  set_debug_level
\* (setLevel) clears the caches of the loggers registered with the logging
\* manager only, and a Logger constructed by its class is not registered: a
\* cached decision outlives a change of the level
isEnabledFor(self, levelno) ==
    IF \E c \in self.cache : c.levelno = levelno
    THEN [self |-> self,
          ret |-> (CHOOSE c \in self.cache : c.levelno = levelno).enabled]
    ELSE LET is_enabled == levelno >= self.level
         IN  [self |-> [self EXCEPT !.cache =
                           @ \cup {[levelno |-> levelno, enabled |-> is_enabled]}],
              ret |-> is_enabled]

\* Logger.log(levelno, msg): the logger afterwards and the lines the call
\* writes to the error stream, one for every attached ColorHandler that lets
\* the level through (a FileHandler writes to its file, which is not
\* modelled); colours are not part of a line
Logger_log(self, levelno, msg) ==
    LET enabled == isEnabledFor(self, levelno)
        writes(h) == h = "ColorHandler" /\ levelno >= self.handler_level
        line == [levelno |-> levelno, show_level |-> self.show_level, msg |-> msg,
                 text |-> Formatter_format(self.show_level, levelno, msg)]
    IN  [self |-> enabled.self,
         lines |-> IF ~enabled.ret THEN <<>>
                   ELSE [i \in 1..Len(SelectSeq(self.handlers, writes)) |-> line]]

NoList == [some |-> FALSE, list |-> <<>>]

List(l) == [some |-> TRUE, list |-> l]

NoFormat == [module |-> NoneValue, class |-> NoneValue, method |-> NoneValue,
             property |-> NoneValue, msg_list |-> NoList, msg_type |-> "info"]

NoLogger == [level |-> 0, handlers |-> <<>>, handler_level |-> 0,
             show_level |-> FALSE, scheme |-> 0, cache |-> {}]

NoLoggerCall == [op |-> "none", level |-> 0, before |-> 0, fmt |-> NoFormat,
                 exc |-> "None", ret |-> <<>>, state |-> FALSE, msg |-> <<>>]

IdleLogger == logger = NoLogger /\ lcall = NoLoggerCall

----------------------------------------------------------------------------
(* Group *)

\* Logger.error(msg): log(ERROR, msg)
Logger_error(self, msg) == Logger_log(self, ERROR, msg)

\* self._insert: "{0}.{1}.".format(self.__module__, self.__class__.__name__)
Insert == <<"gui_elements", ".", "Group", ".">>

\* a Qt object passed as an argument is an optional value too: its truth
\* value is that of a plain object, true whenever it is there
Present(obj) == obj.some

\* the outcome of a Group operation: the group afterwards, the object
\* returned and the lines written to the error stream
Outcome(self, ret, lines) == [self |-> self, ret |-> ret, lines |-> lines]

\* the Failure branch of the Group operations: log the message, return it
Missing(self, op, argument) ==
    LET msg == self.insert \o <<op, "(): ", argument, " Argument missing">>
        logged == Logger_error(self.log, msg)
    IN  Outcome([self EXCEPT !.log = logged.self], Failure(Str(msg)), logged.lines)

\* Group.add_layout
add_layout(self, layout) ==
    IF Present(layout)
    THEN Outcome([self EXCEPT !.container = Append(@, [kind |-> "layout", item |-> layout.text])],
                 Success(NoneValue), <<>>)
    ELSE Missing(self, "add_layout", "layout")

\* add_widget as it would be if it returned the Failure without logging it
add_widget_silent(self, widget) ==
    IF Present(widget)
    THEN Outcome([self EXCEPT !.container = Append(@, [kind |-> "widget", item |-> widget.text])],
                 Success(NoneValue), <<>>)
    ELSE Outcome(self, Failure(Str(self.insert \o <<"add_widget", "(): ", "widget",
                                                     " Argument missing">>)), <<>>)

\* Group.add_widget
add_widget(self, widget) ==
    IF Present(widget)
    THEN Outcome([self EXCEPT !.container = Append(@, [kind |-> "widget", item |-> widget.text])],
                 Success(NoneValue), <<>>)
    ELSE Missing(self, "add_widget", "widget")

\* set_title as it would be with the test of set_label
set_title_or_empty(self, title) ==
    IF Truthy(title) \/ title = Str(<<>>)
    THEN Outcome([self EXCEPT !.title = title.text], Success(NoneValue), <<>>)
    ELSE Missing(self, "set_title", "title")

\* Group.set_title
set_title(self, title) ==
    IF Truthy(title)
    THEN Outcome([self EXCEPT !.title = title.text], Success(NoneValue), <<>>)
    ELSE Missing(self, "set_title", "title")

\* Group.set_label
set_label(self, label) ==
    IF Truthy(label) \/ label = Str(<<>>)
    THEN Outcome([self EXCEPT !.label = label.text], Success(NoneValue), <<>>)
    ELSE Missing(self, "set_label", "label")

RECURSIVE collapse_widgets(_, _)

\* toggle_button.setChecked(b): a checkable button whose state changes takes
\* the new state and emits toggled(b), which runs the connected
\* collapse_widgets before setChecked returns
toggle_button_setChecked(self, b) ==
    IF self.checkable /\ self.checked # b
    THEN collapse_widgets([self EXCEPT !.checked = b], b)
    ELSE self

\* Group.collapse_widgets
collapse_widgets(self, state) ==
    IF ~state
    THEN toggle_button_setChecked([self EXCEPT !.visible = FALSE], FALSE)
    ELSE toggle_button_setChecked([self EXCEPT !.visible = TRUE], TRUE)

\* Group.__init__; visible is the visibility given to the content container
\* with setVisible, checked the state of the toggle button
Group_init(title, label, init_visible) ==
    LET box == [live |-> TRUE, insert |-> Insert, log |-> Logger_init(NoneValue),
                title |-> IF Truthy(title) THEN title.text ELSE <<>>,
                label |-> IF Truthy(label) THEN label.text ELSE <<>>,
                container |-> <<>>, checkable |-> TRUE, checked |-> FALSE,
                visible |-> TRUE]
        button == toggle_button_setChecked(box, FALSE)
    IN  [button EXCEPT !.visible = init_visible]

NoGroup == [live |-> FALSE, insert |-> <<>>, log |-> NoLogger, title |-> <<>>,
            label |-> <<>>, container |-> <<>>, checkable |-> FALSE, checked |-> FALSE,
            visible |-> FALSE]

NoGroupCall == [op |-> "none", arg |-> NoneValue, state |-> FALSE, ret |-> NoObject]

IdleGroup == group = NoGroup /\ gcall = NoGroupCall /\ stream = <<>>

----------------------------------------------------------------------------
(* The state machine of DoubleSlider *)

\* arguments passed to setValue
ArgValues == {Num(-10), Num(0), Rat(1, 1000), Rat(1, 2), Num(25), Num(150)}

\* frame in which a caller's call runs
TopFrame == 1

\* data.get(key): the number stored under the key, or NoRet for a key that
\* is not in data
Optional(values) == {NoRet} \cup values

\* key in data
In(entry) == entry # NoRet

\* item.setMinimum(data['min']) when data has 'min'; made is the outcome of
\* the statements before it, and an exception raised there ends the call
dialog_min(made, min, depth, first) ==
    IF made.exc # "None" THEN made
    ELSE IF In(min) THEN setMinimum(made.self, min, depth + 1, first)
    ELSE made

\* item.setMaximum(data['max']) when data has 'max'
dialog_max(made, max, depth, first) ==
    IF made.exc # "None" THEN made
    ELSE IF In(max) THEN setMaximum(made.self, max, depth + 1, first)
    ELSE made

\* item.setValue(data['default']) when data has 'default'
dialog_default(made, default, depth, first) ==
    IF made.exc # "None" THEN made
    ELSE IF In(default) THEN setValue(made.self, default, depth + 1, first)
    ELSE made

\* GuiElements.multi_input_dialog running in frame depth, for data whose
\* 'type' is float and which has a 'label': the item is a DoubleSlider, given
\* data['min'], data['max'] and data['default'] when data has them
multi_input_dialog(min, max, default, depth, first) ==
    dialog_default(dialog_max(dialog_min(init(depth + 1, first), min, depth, first),
                              max, depth, first),
                   default, depth, first)

NoCall == [op |-> "none", a |-> NoRet, b |-> NoRet, c |-> NoRet, exc |-> "None",
           ret |-> NoRet]

Called(op, a, b, c, r) ==
    [op |-> op, a |-> a, b |-> b, c |-> c, exc |-> r.exc, ret |-> r.ret]

IdleSlider == phase = "new" /\ slider = QSliderInit /\ pre = slider /\ call = NoCall

\* no DoubleSlider has been asked for yet
Init ==
    /\ IdleSlider
    /\ IdleResult
    /\ IdleLogger
    /\ IdleGroup

\* DoubleSlider(): the caller gets the instance only if __init__ returns
Construct ==
    /\ phase = "new"
    /\ \E first \in RuntimeLimits :
         LET r == init(TopFrame, first)
         IN  /\ phase' = IF r.exc = "None" THEN "live" ELSE "failed"
             /\ slider' = r.self
             /\ call' = Called("__init__", NoRet, NoRet, NoRet, r)
    /\ pre' = slider
    /\ UNCHANGED outsideSlider

\* GuiElements.multi_input_dialog(data={'label': ..., 'type': float, ...}): the
\* caller gets the widget and its item only if the call returns
MultiInputDialog ==
    /\ phase = "new"
    /\ \E min \in Optional({Num(v) : v \in BoundValues}),
          max \in Optional({Num(v) : v \in BoundValues}),
          default \in Optional(ArgValues), first \in RuntimeLimits :
         LET r == multi_input_dialog(min, max, default, TopFrame, first)
         IN  /\ phase' = IF r.exc = "None" THEN "live" ELSE "failed"
             /\ slider' = r.self
             /\ call' = Called("multi_input_dialog", min, max, default, r)
    /\ pre' = slider
    /\ UNCHANGED outsideSlider

Next ==
    \/ Construct
    \/ MultiInputDialog

Spec == Init /\ [][Next]_vars

TypeOK ==
    /\ phase \in {"new", "live", "failed"}
    /\ call.exc \in {"None", "AttributeError", "RecursionError",
                     "ZeroDivisionError", "OverflowError"}

----------------------------------------------------------------------------
(* The state machine of Success and Failure *)

NewSuccess ==
    /\ \E m \in Messages :
         /\ result' = Success(m)
         /\ rcall' = [op |-> "Success", arg |-> m, ret |-> NoneValue, truth |-> FALSE,
                      writes |-> 0]
    /\ UNCHANGED outsideResult

NewFailure ==
    /\ \E m \in Messages :
         /\ result' = Failure(m)
         /\ rcall' = [op |-> "Failure", arg |-> m, ret |-> NoneValue, truth |-> FALSE,
                      writes |-> 0]
    /\ UNCHANGED outsideResult

\* obj.message = m
SetMessage ==
    /\ result.cls # "none"
    /\ rcall.writes < MaxWrites
    /\ \E m \in Messages :
         /\ result' = message_set(result, m)
         /\ rcall' = [op |-> "message_set", arg |-> m, ret |-> NoneValue, truth |-> FALSE,
                      writes |-> rcall.writes + 1]
    /\ UNCHANGED outsideResult

\* obj.message
GetMessage ==
    /\ result.cls # "none"
    /\ rcall' = [rcall EXCEPT !.op = "message_get", !.arg = NoneValue,
                              !.ret = message_get(result), !.truth = FALSE]
    /\ UNCHANGED <<result, outsideResult>>

\* bool(obj), "if obj", "not obj"
TestTruth ==
    /\ result.cls # "none"
    /\ rcall' = [rcall EXCEPT !.op = "bool", !.arg = NoneValue, !.ret = NoneValue,
                              !.truth = PyBool(result)]
    /\ UNCHANGED <<result, outsideResult>>

InitResult ==
    /\ IdleResult
    /\ IdleSlider
    /\ IdleLogger
    /\ IdleGroup

NextResult ==
    \/ NewSuccess
    \/ NewFailure
    \/ SetMessage
    \/ GetMessage
    \/ TestTruth

SpecResult == InitResult /\ [][NextResult]_vars

----------------------------------------------------------------------------
(* The state machine of Logger *)

\* values passed to set_debug_level
DebugLevels == -1..6

\* file names passed to Logger()
FileNames == {NoneValue, Str(<<"run.log">>)}

\* names passed to format_msg
Names(c) == {NoneValue, Str(<<c>>)}

\* message lists passed to format_msg
MessageLists == {NoList, List(<<>>), List(<< <<"a">> >>), List(<< <<"a">>, <<"b", "c">> >>)}

NewLogger ==
    /\ \E f \in FileNames :
         /\ logger' = Logger_init(f)
         /\ lcall' = [NoLoggerCall EXCEPT !.op = "Logger"]
    /\ UNCHANGED outsideLogger

SetDebugLevel ==
    /\ logger.handlers # <<>>
    /\ \E level \in DebugLevels :
         /\ logger' = set_debug_level(logger, level)
         /\ lcall' = [NoLoggerCall EXCEPT !.op = "set_debug_level", !.level = level,
                                          !.before = logger.level]
    /\ UNCHANGED outsideLogger

\* set_debug_level(): the default level
SetDebugLevelDefault ==
    /\ logger.handlers # <<>>
    /\ logger' = set_debug_level(logger, DefaultDebugLevel)
    /\ lcall' = [NoLoggerCall EXCEPT !.op = "set_debug_level()", !.level = DefaultDebugLevel,
                                     !.before = logger.level]
    /\ UNCHANGED outsideLogger

\* Logger.format_msg(...): a class method, it needs no instance
FormatMsg ==
    /\ \E m \in Names("m") \cup {Str(<<>>)}, c \in Names("C"), f \in Names("f"), p \in Names("p"),
          l \in MessageLists, t \in {"info", "warning", "error"} :
         LET r == format_msg(m, c, f, p, l, t)
         IN  lcall' = [NoLoggerCall EXCEPT
                          !.op = "format_msg",
                          !.fmt = [module |-> m, class |-> c, method |-> f,
                                   property |-> p, msg_list |-> l, msg_type |-> t],
                          !.exc = r.exc, !.ret = r.ret]
    /\ UNCHANGED <<logger, outsideLogger>>

InitLogger ==
    /\ IdleLogger
    /\ IdleSlider
    /\ IdleResult
    /\ IdleGroup

NextLogger ==
    \/ NewLogger
    \/ SetDebugLevel
    \/ SetDebugLevelDefault
    \/ FormatMsg

SpecLogger == InitLogger /\ [][NextLogger]_vars

\* records the model lets one logger write
MaxRecords == 2

\* values passed to set_color_scheme
Schemes == -1..3

\* levels of the records logged
LogLevels == {DEBUG, WARNING, CRITICAL}

\* messages logged
LogMessages == {<<"hello">>}

ShowLevel ==
    /\ logger.handlers # <<>>
    /\ \E state \in BOOLEAN :
         /\ logger' = show_level(logger, state)
         /\ lcall' = [NoLoggerCall EXCEPT !.op = "show_level", !.state = state]
    /\ UNCHANGED outsideLogger

\* show_level(): the default state
ShowLevelDefault ==
    /\ logger.handlers # <<>>
    /\ logger' = show_level(logger, DefaultState)
    /\ lcall' = [NoLoggerCall EXCEPT !.op = "show_level()", !.state = DefaultState]
    /\ UNCHANGED outsideLogger

SetColorScheme ==
    /\ logger.handlers # <<>>
    /\ \E scheme \in Schemes :
         /\ logger' = set_color_scheme(logger, scheme)
         /\ lcall' = [NoLoggerCall EXCEPT !.op = "set_color_scheme", !.level = scheme]
    /\ UNCHANGED outsideLogger

\* set_color_scheme(): the default scheme
SetColorSchemeDefault ==
    /\ logger.handlers # <<>>
    /\ logger' = set_color_scheme(logger, DefaultScheme)
    /\ lcall' = [NoLoggerCall EXCEPT !.op = "set_color_scheme()", !.level = DefaultScheme]
    /\ UNCHANGED outsideLogger

\* logger.log(levelno, msg) and its shorthands debug(msg) ... critical(msg)
Log ==
    /\ logger.handlers # <<>>
    /\ Len(stream) < MaxRecords
    /\ \E levelno \in LogLevels, msg \in LogMessages :
         LET r == Logger_log(logger, levelno, msg)
         IN  /\ logger' = r.self
             /\ stream' = stream \o r.lines
             /\ lcall' = [NoLoggerCall EXCEPT !.op = "log", !.level = levelno, !.msg = msg]
    /\ UNCHANGED outsideLogStream

NextLogStream ==
    \/ NewLogger
    \/ SetDebugLevel
    \/ ShowLevel
    \/ ShowLevelDefault
    \/ SetColorScheme
    \/ SetColorSchemeDefault
    \/ Log

SpecLogStream == InitLogger /\ [][NextLogStream]_vars

----------------------------------------------------------------------------
(* The state machine of Group *)

\* most items added to the container of one group
MaxItems == 2

\* most lines written to the error stream
MaxLines == 2

\* titles and labels passed by callers
Titles == {NoneValue, Str(<<>>), Str(<<"x">>)}

\* layouts and widgets passed by callers
Layouts == {NoneValue, Str(<<"hbox">>)}

Widgets == {NoneValue, Str(<<"button">>)}

\* a group operation ran: the group afterwards, the lines written, the call
Ran(op, arg, r) ==
    /\ group' = r.self
    /\ stream' = stream \o r.lines
    /\ gcall' = [op |-> op, arg |-> arg, state |-> FALSE, ret |-> r.ret]

\* the operation may run within the bounds of the model
Room == Len(group.container) < MaxItems /\ Len(stream) < MaxLines

NewGroup ==
    /\ ~group.live
    /\ \E title \in {Str(<<"t">>), Str(<<>>)}, label \in {NoneValue, Str(<<"l">>)},
          init_visible \in BOOLEAN :
         /\ group' = Group_init(title, label, init_visible)
         /\ gcall' = [op |-> "Group", arg |-> title, state |-> init_visible, ret |-> NoObject]
    /\ UNCHANGED <<stream, outsideGroup>>

AddLayout ==
    /\ group.live /\ Room
    /\ \E layout \in Layouts : Ran("add_layout", layout, add_layout(group, layout))
    /\ UNCHANGED outsideGroup

AddWidget ==
    /\ group.live /\ Room
    /\ \E widget \in Widgets : Ran("add_widget", widget, add_widget(group, widget))
    /\ UNCHANGED outsideGroup

SetTitle ==
    /\ group.live /\ Room
    /\ \E title \in Titles : Ran("set_title", title, set_title(group, title))
    /\ UNCHANGED outsideGroup

SetLabel ==
    /\ group.live /\ Room
    /\ \E label \in Titles : Ran("set_label", label, set_label(group, label))
    /\ UNCHANGED outsideGroup

\* collapse_widgets(state) called by the owner of the group
CollapseWidgets ==
    /\ group.live
    /\ \E state \in BOOLEAN :
         /\ group' = collapse_widgets(group, state)
         /\ gcall' = [op |-> "collapse_widgets", arg |-> NoneValue, state |-> state,
                      ret |-> NoObject]
    /\ UNCHANGED <<stream, outsideGroup>>

\* the user clicks the toggle button: the button changes its checked state
ToggleButton ==
    /\ group.live
    /\ group' = toggle_button_setChecked(group, ~group.checked)
    /\ gcall' = [op |-> "toggle", arg |-> NoneValue, state |-> ~group.checked,
                 ret |-> NoObject]
    /\ UNCHANGED <<stream, outsideGroup>>

InitGroup ==
    /\ IdleGroup
    /\ IdleSlider
    /\ IdleResult
    /\ IdleLogger

NextGroup ==
    \/ NewGroup
    \/ AddLayout
    \/ AddWidget
    \/ SetTitle
    \/ SetLabel
    \/ CollapseWidgets
    \/ ToggleButton

SpecGroup == InitGroup /\ [][NextGroup]_vars

----------------------------------------------------------------------------
(* Properties of DoubleSlider *)

\* a slider has been asked for, by its class or through the dialog
Asked == call.op \in {"__init__", "multi_input_dialog"}

\* the call returned and the caller holds the slider it built
Built == phase = "live" /\ call.exc = "None"

\* the slider brought to a device position and a range
At(self, raw, lo, hi) ==
    [self EXCEPT !.qt_value = raw, !.min_value = Num(lo), !.max_value = Num(hi)]

\* the range of the instance is not degenerate
NonDegenerate(self) == value_range(self).n # 0

\* v lies between the bounds a and b, whichever is the larger
Between(v, a, b) == (RLe(a, v) /\ RLe(v, b)) \/ (RLe(b, v) /\ RLe(v, a))

\* (max_value - min_value) / resolution, as a magnitude
QuantizationStep(self) == RAbs(RDiv(value_range(self), Num(MaxInt)))

\* raw_position / resolution * (max_value - min_value) + min_value
LinearMap(self) ==
    RAdd(RMul(RDiv(Num(self.qt_value), Num(MaxInt)), value_range(self)), self.min_value)

Clamp(i, lo, hi) == IF i < lo THEN lo ELSE IF i > hi THEN hi ELSE i

\* C1: the slider a caller has asked for is there, and at every raw_position
\* and on every non-degenerate range its value() returns
\* raw_position / resolution * (max_value - min_value) + min_value.
C1_ValueIsLinearMap ==
    Asked =>
        /\ Built
        /\ \A raw \in RawPositions, lo \in BoundValues, hi \in BoundValues :
              lo # hi =>
                 LET r == value(At(slider, raw, lo, hi), TopFrame)
                 IN  /\ r.exc = "None"
                     /\ r.ret = LinearMap(At(slider, raw, lo, hi))

\* C2: the dialog that sets a default value on its slider returns it with the
\* range asked for (0.0 and 100.0 where the data leaves a bound out) and, on
\* a non-degenerate range, with raw_position at
\* round((value - min_value) / (max_value - min_value) * resolution), clamped
\* into [0, resolution].
C2_SetValueSetsRoundedPosition ==
    LET lo == IF In(call.a) THEN call.a ELSE Num(0)
        hi == IF In(call.b) THEN call.b ELSE Num(100)
    IN  (call.op = "multi_input_dialog" /\ In(call.c) /\ lo # hi) =>
            /\ Built
            /\ slider.min_value = lo
            /\ slider.max_value = hi
            /\ slider.qt_value =
                 Clamp(PyRound(RMul(RDiv(RSub(call.c, lo), RSub(hi, lo)), Num(MaxInt))),
                       0, MaxInt)

\* C3: the slider a caller has asked for is there, and after setValue(value)
\* a setRange to a non-degenerate range that contains the value leaves value()
\* within one quantization step (of the new range) of the value read before
\* the call.
C3_SetRangePreservesValue ==
    Asked =>
        /\ Built
        /\ \A v \in ArgValues, lo \in BoundValues, hi \in BoundValues,
              first \in RuntimeLimits :
              (/\ NonDegenerate(slider)
               /\ Between(v, slider.min_value, slider.max_value)
               /\ lo # hi
               /\ Between(v, Num(lo), Num(hi))) =>
                 LET placed == setValue(slider, v, TopFrame, first)
                     before == value(placed.self, TopFrame)
                     moved == setRange(placed.self, Num(lo), Num(hi), TopFrame, first)
                     after == value(moved.self, TopFrame)
                 IN  /\ placed.exc = "None"
                     /\ before.exc = "None"
                     /\ moved.exc = "None"
                     /\ after.exc = "None"
                     /\ RLe(RAbs(RSub(after.ret, before.ret)), QuantizationStep(moved.self))

\* C4: the slider a caller has asked for is there, and on every
\* non-degenerate range setValue(value) with value inside the range followed
\* by value() gives a result within one quantization step of value.
C4_SetValueRoundTrip ==
    Asked =>
        /\ Built
        /\ \A v \in ArgValues, lo \in BoundValues, hi \in BoundValues,
              first \in RuntimeLimits :
              (lo # hi /\ Between(v, Num(lo), Num(hi))) =>
                 LET placed == setValue(At(slider, slider.qt_value, lo, hi), v,
                                        TopFrame, first)
                     after == value(placed.self, TopFrame)
                 IN  /\ placed.exc = "None"
                     /\ after.exc = "None"
                     /\ RLe(RAbs(RSub(after.ret, v)), QuantizationStep(placed.self))

C6_ConstructionYieldsDefaults ==
    call.op = "__init__" =>
        /\ call.exc = "None"
        /\ phase = "live"
        /\ slider.min_value = Num(0)
        /\ slider.max_value = Num(100)
        /\ slider.qt_value = 0
        /\ slider.qt_min = 0
        /\ slider.qt_max = 10000
        /\ slider.max_int = 10000

C8_DegenerateRangeSignalsDomainError ==
    Asked =>
        /\ Built
        /\ \A v \in ArgValues, b \in BoundValues, first \in RuntimeLimits :
              LET flat == At(slider, slider.qt_value, b, b)
              IN  /\ setValue(flat, v, TopFrame, first).exc = "DomainError"
                  /\ proportion(flat, TopFrame).exc = "DomainError"

\* C9: the slider a caller has asked for is there, and its setRange completes
\* without an error for every pair of bounds, reversed and equal ones
\* included, and leaves both bounds replaced by its arguments.
C9_SetRangeAlwaysSucceeds ==
    Asked =>
        /\ Built
        /\ \A lo \in BoundValues, hi \in BoundValues, first \in RuntimeLimits :
              LET r == setRange(slider, Num(lo), Num(hi), TopFrame, first)
              IN  /\ r.exc = "None"
                  /\ r.self.min_value = Num(lo)
                  /\ r.self.max_value = Num(hi)

\* C10: the slider a caller has asked for is there, and after setRange(5, 5)
\* on it a call of value() signals DomainError.
C10_ValueAfterDegenerateSetRange ==
    Asked =>
        /\ Built
        /\ \A first \in RuntimeLimits :
              LET r == setRange(slider, Num(5), Num(5), TopFrame, first)
              IN  value(r.self, TopFrame).exc = "DomainError"

\* C11: the slider a caller has asked for is there, and at every raw_position
\* and on every non-degenerate range, min_value # 0 included, proportion()
\* lies in [0.0, 1.0] and equals raw_position / resolution.
C11_ProportionIsPositionFraction ==
    Asked =>
        /\ Built
        /\ \A raw \in RawPositions, lo \in BoundValues, hi \in BoundValues :
              lo # hi =>
                 LET r == proportion(At(slider, raw, lo, hi), TopFrame)
                 IN  /\ r.exc = "None"
                     /\ r.ret = RDiv(Num(raw), Num(MaxInt))
                     /\ RLe(Num(0), r.ret)
                     /\ RLe(r.ret, Num(1))

\* C12: the slider a caller has asked for is there, and for a fixed range
\* value() is non-decreasing in raw_position when max_value > min_value and
\* non-increasing when max_value < min_value.
C12_ValueMonotoneInPosition ==
    Asked =>
        /\ Built
        /\ \A lo \in BoundValues, hi \in BoundValues,
              low \in RawPositions, high \in RawPositions :
              (lo # hi /\ low <= high) =>
                 LET below == value(At(slider, low, lo, hi), TopFrame)
                     above == value(At(slider, high, lo, hi), TopFrame)
                 IN  /\ below.exc = "None"
                     /\ above.exc = "None"
                     /\ IF lo < hi THEN RLe(below.ret, above.ret)
                        ELSE RLe(above.ret, below.ret)

\* the ways the runtime stops a call that keeps re-invoking itself: the frames
\* run out, or the argument it passes down leaves the float range
RuntimeStops == {"RecursionError", "OverflowError"}

\* C21: the slider a caller has asked for is there, and every operation on
\* it (value, setValue, setRange, setMinimum, setMaximum, proportion) on a
\* non-degenerate range terminates: the call ends after a bounded number of
\* steps of its own and is never a self-call that only the runtime stops.
C21_OperationsTerminate ==
    Asked =>
        /\ Built
        /\ \A v \in ArgValues, lo \in BoundValues, hi \in BoundValues,
              first \in RuntimeLimits :
              lo # hi =>
                 LET self == At(slider, slider.qt_value, lo, hi)
                 IN  /\ value(self, TopFrame).exc \notin RuntimeStops
                     /\ setValue(self, v, TopFrame, first).exc \notin RuntimeStops
                     /\ setRange(self, Num(hi), Num(lo), TopFrame, first).exc
                           \notin RuntimeStops
                     /\ setMinimum(self, Num(lo), TopFrame, first).exc \notin RuntimeStops
                     /\ setMaximum(self, Num(hi), TopFrame, first).exc \notin RuntimeStops
                     /\ proportion(self, TopFrame).exc \notin RuntimeStops

----------------------------------------------------------------------------
(* Properties of Success and Failure *)

\* C13: every Success object is truthy and every Failure object is falsy,
\* whatever its message: the truth value is the variant constructed.
C13_TruthIsVariant ==
    /\ result.cls # "none" => (PyBool(result) <=> result.cls = "Success")
    /\ rcall.op = "bool" => (rcall.truth <=> result.cls = "Success")

\* C13 witness: a Failure carrying a non-empty message was tested for truth.
C13_Witness ==
    /\ rcall.op = "bool"
    /\ result.cls = "Failure"
    /\ result.message.some /\ result.message.text # <<>>

\* C14: assigning message never changes the variant or the truth value of the
\* object, and message then reads back as the value assigned.
C14_MessageWriteKeepsIdentity ==
    [][rcall'.op = "message_set" =>
          /\ result'.cls = result.cls
          /\ PyBool(result') = PyBool(result)
          /\ message_get(result') = rcall'.arg]_vars

\* C14 witness: message was assigned for the third time, to a value other
\* than the one the object was constructed with.
C14_Witness ==
    /\ rcall.op = "message_set"
    /\ rcall.writes = 3
    /\ result.message = rcall.arg
    /\ rcall.arg.some

\* C15: an object constructed with message m has message = m, and one
\* constructed without a message has None as message.
C15_ConstructedMessage ==
    rcall.op \in {"Success", "Failure"} =>
        /\ result.cls = rcall.op
        /\ message_get(result) = rcall.arg

\* C15 witness: a Failure was constructed without a message.
C15_Witness == rcall.op = "Failure" /\ ~rcall.arg.some /\ ~message_get(result).some

----------------------------------------------------------------------------
(* Properties of Logger *)

\* C18: set_debug_level(level) sets the level to DEBUG for 0, ERROR for 1,
\* WARNING for 2, INFO for 3 and CRITICAL for 4, which is the default, and
\* leaves the level as it was for every other value.
C18_DebugLevelMapping ==
    /\ lcall.op = "set_debug_level" =>
         logger.level = CASE lcall.level = 0 -> 10
                          [] lcall.level = 1 -> 40
                          [] lcall.level = 2 -> 30
                          [] lcall.level = 3 -> 20
                          [] lcall.level = 4 -> 50
                          [] OTHER -> lcall.before
    /\ lcall.op = "set_debug_level()" => logger.level = 50

\* C18 witness: set_debug_level(1) moved the level from another one to ERROR.
C18_Witness ==
    /\ lcall.op = "set_debug_level"
    /\ lcall.level = 1
    /\ lcall.before # 40
    /\ logger.level = 40

\* the origin prefix: module, .class, .method(), .property, each when supplied
OriginPrefix(f) ==
    (IF Truthy(f.module) THEN f.module.text ELSE <<>>)
    \o (IF Truthy(f.class) THEN <<".">> \o f.class.text ELSE <<>>)
    \o (IF Truthy(f.method) THEN <<".">> \o f.method.text \o <<"(", ")">> ELSE <<>>)
    \o (IF Truthy(f.property) THEN <<".">> \o f.property.text ELSE <<>>)

\* every entry of the list behind its own line break
RECURSIVE IndentedLines(_, _)
IndentedLines(break, list) ==
    IF list = <<>> THEN <<>>
    ELSE break \o Head(list) \o IndentedLines(break, Tail(list))

\* C19: format_msg returns the origin prefix, a line break and the entries of
\* msg_list each on its own indented line; without msg_list it takes the list
\* as empty and returns a string without raising.
C19_FormatMsgLayout ==
    lcall.op = "format_msg" =>
        /\ lcall.exc = "None"
        /\ lcall.ret =
             OriginPrefix(lcall.fmt)
             \o (IF lcall.fmt.msg_list.some /\ lcall.fmt.msg_list.list # <<>>
                 THEN IndentedLines(LineBreak(lcall.fmt.msg_type), lcall.fmt.msg_list.list)
                 ELSE LineBreak(lcall.fmt.msg_type))

\* the logger was constructed without a filename: it has handlers and no
\* file handler among them
WithoutFile(l) ==
    /\ l.handlers # <<>>
    /\ \A i \in 1..Len(l.handlers) : l.handlers[i] # "FileHandler"

\* how many times the colour handler is attached
ColourHandlers(l) ==
    Cardinality({i \in 1..Len(l.handlers) : l.handlers[i] = "ColorHandler"})

\* the line names the level of its record in front of the message
ShowsLevel(line) ==
    /\ Len(line.text) > Len(line.msg)
    /\ line.text[1] = levelname(line.levelno)

\* the line ends with the message of its record
CarriesMessage(line, msg) ==
    /\ line.msg = msg
    /\ Len(line.text) >= Len(msg)
    /\ SubSeq(line.text, Len(line.text) - Len(msg) + 1, Len(line.text)) = msg

\* the threshold is the one every earlier record was decided against: no
\* cached decision is older than the level of the logger.  This is so in
\* every state reached by show_level, set_color_scheme and logging calls
\* alone, which leave the level as the constructor set it
ThresholdInForce(l) ==
    \A c \in l.cache : c.enabled <=> c.levelno >= l.level

\* C22: on a Logger constructed without a filename, after any sequence of
\* show_level and set_color_scheme calls the colour handler is attached
\* exactly once; the format in force is the one the most recent show_level
\* call selected, no other call changing it; no record is ever written more
\* than once; and, the threshold being the one in force since the records
\* before it, a record logged above the threshold is written to the stream
\* exactly once, in that format.
C22_ColourHandlerAttachedOnce ==
    [][WithoutFile(logger') =>
          /\ ColourHandlers(logger') = 1
          /\ lcall'.op \in {"show_level", "show_level()"} =>
                logger'.show_level = lcall'.state
          /\ lcall'.op \in {"set_color_scheme", "set_color_scheme()", "set_debug_level",
                            "log"} =>
                logger'.show_level = logger.show_level
          /\ lcall'.op = "log" =>
                /\ Len(stream') <= Len(stream) + 1
                /\ SubSeq(stream', 1, Len(stream)) = stream
                /\ (ThresholdInForce(logger) /\ lcall'.level > logger.level) =>
                      /\ Len(stream') = Len(stream) + 1
                      /\ stream'[Len(stream')].levelno = lcall'.level
                      /\ CarriesMessage(stream'[Len(stream')], lcall'.msg)
                      /\ ShowsLevel(stream'[Len(stream')]) <=> logger.show_level]_vars

\* C22 witness: after show_level and set_color_scheme calls the logger, its
\* level still the one of its construction, has written two records to the
\* stream, the first with its level and the second, after show_level(False),
\* without it.
C22_Witness ==
    /\ WithoutFile(logger)
    /\ lcall.op = "log"
    /\ logger.scheme # 0
    /\ Len(stream) = 2
    /\ ShowsLevel(stream[1])
    /\ ~ShowsLevel(stream[2])
    /\ ~logger.show_level
    /\ logger.level = DEBUG
    /\ ThresholdInForce(logger)

----------------------------------------------------------------------------
(* Properties of Group *)

GroupSetters == {"add_layout", "add_widget", "set_title", "set_label"}

\* the argument of the call counts as missing
ArgumentMissing(c) ==
    IF c.op = "set_title" THEN ~c.arg.some \/ c.arg.text = <<>> ELSE ~c.arg.some

\* the call applied its argument to the group
Applied(c, before, after) ==
    CASE c.op = "add_layout" ->
           /\ after.container = Append(before.container, [kind |-> "layout", item |-> c.arg.text])
           /\ after.title = before.title /\ after.label = before.label
      [] c.op = "add_widget" ->
           /\ after.container = Append(before.container, [kind |-> "widget", item |-> c.arg.text])
           /\ after.title = before.title /\ after.label = before.label
      [] c.op = "set_title" ->
           /\ after.title = c.arg.text
           /\ after.container = before.container /\ after.label = before.label
      [] c.op = "set_label" ->
           /\ after.label = c.arg.text
           /\ after.container = before.container /\ after.title = before.title

\* C16: add_layout, add_widget, set_title and set_label called without their
\* argument (None, and "" for set_title) return a Failure whose message is not
\* empty and names the operation, and leave container, title and label as they
\* were; called with it ("" included for set_label) they apply it and return a
\* Success.
C16_MissingArgumentGivesFailure ==
    [][gcall'.op \in GroupSetters =>
          IF ArgumentMissing(gcall')
          THEN /\ gcall'.ret.cls = "Failure"
               /\ ~PyBool(gcall'.ret)
               /\ gcall'.ret.message.some
               /\ \E i \in 1..Len(gcall'.ret.message.text) :
                     gcall'.ret.message.text[i] = gcall'.op
               /\ group'.container = group.container
               /\ group'.title = group.title
               /\ group'.label = group.label
          ELSE /\ gcall'.ret.cls = "Success"
               /\ PyBool(gcall'.ret)
               /\ Applied(gcall', group, group')]_vars

\* C16 witness: set_title("") returned a Failure and set no title.
C16_Witness ==
    /\ gcall.op = "set_title"
    /\ gcall.arg = Str(<<>>)
    /\ gcall.ret.cls = "Failure"
    /\ group.title # <<>>

\* C17: a Group operation that returns a Failure writes exactly one error
\* line in the same call, carrying the text of the Failure's message; one that
\* returns a Success writes none.
C17_FailureIsLoggedOnce ==
    [][gcall'.op \in GroupSetters =>
          IF gcall'.ret.cls = "Failure"
          THEN /\ Len(stream') = Len(stream) + 1
               /\ SubSeq(stream', 1, Len(stream)) = stream
               /\ stream'[Len(stream')].levelno = 40
               /\ stream'[Len(stream')].msg = gcall'.ret.message.text
          ELSE stream' = stream]_vars

\* C17 witness: add_widget(None) returned a Failure after an earlier line was
\* written, and the last line of the stream carries its message.
C17_Witness ==
    /\ gcall.op = "add_widget"
    /\ gcall.ret.cls = "Failure"
    /\ Len(stream) = 2
    /\ stream[2].msg = gcall.ret.message.text

\* C20: in every state of a Group the content container is visible exactly
\* when the toggle button is checked.
C20_VisibleIffChecked == group.live => (group.visible <=> group.checked)

====
